---- MODULE Spec2Model ----
(***************************************************************************)
(* Model of the two EMG/IMU Philips Hue control scripts                    *)
(*   src/hueLights/hueColorIMU.py        (gesture-gated hue adjustment)    *)
(*   src/examples/hueLights/hueBright.py (gesture toggle)                  *)
(*                                                                         *)
(* Time is counted in ticks of 0.1 s.  acc[1] readings are integers (the   *)
(* armband delivers 16-bit raw values).  The Hue bridge is modelled by the *)
(* state of the configured group and of the configured lights; every       *)
(* bridge call may raise.                                                  *)
(***************************************************************************)
EXTENDS Integers, Sequences, FiniteSets, TLC

\* ------------------------------------------------------------ bounds
MaxTime == 6            \* the clock stops advancing at this tick
MaxRun == 3             \* cap of the counters of consecutive active poses
MaxFaults == 1          \* bridge calls that raise during one run of the script
MaxRel == 155           \* single samples are drawn from -MaxRel..MaxRel and SpecialAcc

\* ------------------------------------------------------------ configuration
MOTION_THRESHOLD == 150
HUE_STEP == 500
DEADZONE == 50
UPDATE_INTERVAL == 3    \* 0.3 s, in ticks of 0.1 s
HueSpace == 65536
\* line 40, as uncommented for USE_GROUP = False
LIGHT_NAMES == <<"Back Right", "Back Left">>
Scripts == {"hueColorIMU", "hueBright"}

\* ------------------------------------------------------------ input domains
Poses == {0, 1, 2}
AccValues == {0, 300}   \* acc[1] readings delivered in the event loop
HueSamples == {1000}    \* hue another client of the bridge sets
SpecialAcc == {-603, -300, 300, 603}
WideAcc == (-MaxRel..MaxRel) \cup SpecialAcc
WideAnchors == {0, 3}
WideHues == {0, 1000, 65300, 65535}
NoHue == -1             \* the group's action has no 'hue' key
MaxCalls == 2 + Len(LIGHT_NAMES)

VARIABLES
    script,             \* which of the two scripts runs
    TRAINING_MODE,      \* configuration flag, fixed for a run
    USE_GROUP,          \* configuration flag, fixed for a run
    pc,                 \* position of main()
    bridge,             \* TRUE: a Bridge object, FALSE: None
    current_gesture, imu_y_value, last_hue_update, gesture_start_y,
    now,                \* time.time(), in ticks
    groups,             \* bridge side: the group named GROUP_NAME
    lights,             \* bridge side: the lights named in LIGHT_NAMES
    faults,             \* bridge calls that have raised so far
    ev,                 \* the step taken last: a handler with its argument, and
                        \* for hueColorIMU's handle_gesture the anchor it found
    call,               \* the adjust_hue / toggle_lights invocation of that handler
    io,                 \* the bridge calls of that handler, in order
    lastOk,             \* <<time of the last adjust_hue that returned True>>
    activeRun,          \* consecutive active poses delivered to handle_gesture
    fired,              \* anchor captures / toggle_lights calls during that run
    lastSample,         \* <<the last acc[1] delivered to handle_imu>>
    disconnects,        \* calls of myo.disconnect() so far
    pygame              \* "none", "init" after pygame.init(), "quit" after pygame.quit()

cfgvars == <<script, TRAINING_MODE, USE_GROUP>>
globals == <<current_gesture, imu_y_value, last_hue_update, gesture_start_y>>
hub == <<groups, lights>>
env == <<now, faults>>
ghosts == <<lastOk, activeRun, fired, lastSample>>
obs == <<ev, call, io, ghosts>>
resources == <<disconnects, pygame>>
vars == <<cfgvars, pc, bridge, globals, env, hub, obs, resources>>

\* ------------------------------------------------------------ helpers
Abs(x) == IF x < 0 THEN -x ELSE x
Min(a, b) == IF a < b THEN a ELSE b
Max(a, b) == IF a > b THEN a ELSE b
Inc(n) == Min(n + 1, MaxRun)

RECURSIVE Pow2Mod25(_)
Pow2Mod25(n) == IF n = 0 THEN 1 ELSE (2 * Pow2Mod25(n - 1)) % 25

\* floor(log2(num / den)) for num, den > 0: the binary exponent of num / den
RECURSIVE Exp2(_, _)
Exp2(num, den) ==
    IF num >= 2 * den THEN 1 + Exp2(num, 2 * den)
    ELSE IF num < den THEN Exp2(2 * num, den) - 1
    ELSE 0

NoCallRec == [fn |-> "none", hue_change |-> 0, ret |-> FALSE]
Event(name, a, p) == [h |-> name, arg |-> a, prev |-> p]
NoEvent == Event("none", 0, 0)
Op(name, ok) == [op |-> name, ok |-> ok]


\* ------------------------------------------------------------ pure functions
(* int((relative_y / MOTION_THRESHOLD) * HUE_STEP) is computed in IEEE double  *)
(* precision.  With a = |relative_y|, the exact value a * 500 / 150 is an      *)
(* integer only when a = 3k.  Then q = fl(k / 50) has mantissa                 *)
(* round(k * 2^(51 - e) / 25), e the binary exponent of k / 50, so q falls     *)
(* short of k / 50 by rho / 25 units in the last place, rho = k * 2^(51 - e)   *)
(* mod 25, when rho <= 12.  fl(q * 500) then falls below 10k exactly when the  *)
(* shortfall 20 * rho * 2^(e - 52) exceeds half a unit in the last place of    *)
(* 10k, 2^(E - 53), E the binary exponent of 10k: when E - e = 8 and rho >= 7. *)
(* In that case int() gives 10k - 1.  When a is no multiple of 3 the product   *)
(* is a third away from every integer and int() truncates the exact value.     *)
DoubleProductLow(a) ==
    /\ a > 0
    /\ a % 3 = 0
    /\ LET k == a \div 3
           e == Exp2(k, 50)
           E == Exp2(10 * k, 1)
           rho == ((k % 25) * Pow2Mod25(51 - e)) % 25
       IN  E - e = 8 /\ rho >= 7 /\ rho <= 12

hue_change_excess(relative_y) ==
    LET a == Abs(relative_y)
        m == ((a - MOTION_THRESHOLD) * HUE_STEP) \div MOTION_THRESHOLD
    IN  IF relative_y < 0 THEN -m ELSE m

hue_change_round(relative_y) ==
    LET a == Abs(relative_y)
        m == ((2 * a * HUE_STEP) \div MOTION_THRESHOLD + 1) \div 2
    IN  IF relative_y < 0 THEN -m ELSE m

\* line 168: hue_change = int((relative_y / MOTION_THRESHOLD) * HUE_STEP)
hue_change(relative_y) ==
    LET a == Abs(relative_y)
        f == (a * HUE_STEP) \div MOTION_THRESHOLD
        m == IF DoubleProductLow(a) THEN f - 1 ELSE f
    IN  IF relative_y < 0 THEN -m ELSE m

new_hue_clamped(current_hue, change) ==
    Max(0, Min(HueSpace - 1, current_hue + change))

\* lines 94-95: (current_hue + hue_change) % 65536, then the clamp
new_hue(current_hue, change) ==
    Max(0, Min(HueSpace - 1, (current_hue + change) % HueSpace))

rate_limited_after_first(current_time, last) ==
    last > 0 \/ current_time - last < UPDATE_INTERVAL

rate_limited_never(current_time, last) == FALSE

\* line 159
rate_limited(current_time, last) == current_time - last < UPDATE_INTERVAL

\* line 163
in_deadzone(relative_y) == Abs(relative_y) < DEADZONE

over_threshold_deadzone(relative_y) == Abs(relative_y) > DEADZONE

\* line 167
over_threshold(relative_y) == Abs(relative_y) > MOTION_THRESHOLD

group_hue_default(g) == 0

\* line 91: current_state.get('hue', 0)
group_hue(g) == IF g.hue = NoHue THEN 0 ELSE g.hue

\* line 106: [name for name in LIGHT_NAMES if name in lights]
available_lights(l) == SelectSeq(LIGHT_NAMES, LAMBDA n : l[n].present)

\* ------------------------------------------------------------ bridge calls
(* The bridge calls of one invocation are numbered in the order they are made; *)
(* fail is the number of the call that raises (0: none does).  The result is   *)
(* the return value, the bridge state left behind and the calls made.          *)
Result(r, g, l, calls) == [ret |-> r, groups |-> g, lights |-> l, io |-> calls]

SetCalls(name, nset, raised) ==
    [i \in 1..(nset + (IF raised THEN 1 ELSE 0)) |-> Op(name, i <= nset)]

group_id_any(g) == TRUE

\* hueColorIMU lines 86-88: the group named GROUP_NAME is among those listed
group_id(g) == g.present

\* lines 84-103 of hueColorIMU.py
adjust_hue_group(g, l, change, fail) ==
    IF fail = 1 THEN Result(FALSE, g, l, <<Op("get_group", FALSE)>>)
    ELSE IF ~group_id(g) THEN Result(FALSE, g, l, <<Op("get_group", TRUE)>>)
    ELSE IF fail = 2
         THEN Result(FALSE, g, l, <<Op("get_group", TRUE), Op("set_group", FALSE)>>)
         ELSE Result(TRUE, [g EXCEPT !.hue = new_hue(group_hue(g), change)], l,
                     <<Op("get_group", TRUE), Op("set_group", TRUE)>>)

\* lines 104-123 of hueColorIMU.py
adjust_hue_lights(g, l, change, fail) ==
    LET avail == available_lights(l)
        n == Len(avail)
    IN  IF fail = 1 THEN Result(FALSE, g, l, <<Op("get_light_objects", FALSE)>>)
        ELSE IF n = 0 THEN Result(FALSE, g, l, <<Op("get_light_objects", TRUE)>>)
        ELSE IF fail = 2
             THEN Result(FALSE, g, l,
                         <<Op("get_light_objects", TRUE), Op("get_light", FALSE)>>)
             ELSE LET nh == new_hue(l[avail[1]].hue, change)
                      raised == fail >= 3 /\ fail <= 2 + n
                      nset == IF raised THEN fail - 3 ELSE n
                      done == {avail[i] : i \in 1..nset}
                  IN  Result(~raised,
                             g,
                             [m \in DOMAIN l |->
                                 IF m \in done THEN [l[m] EXCEPT !.hue = nh] ELSE l[m]],
                             <<Op("get_light_objects", TRUE), Op("get_light", TRUE)>>
                                 \o SetCalls("set_light", nset, raised))

adjust_hue_unchecked(b, use_group, g, l, change, fail) ==
    IF use_group THEN adjust_hue_group(g, l, change, fail)
    ELSE adjust_hue_lights(g, l, change, fail)

\* lines 78-127 of hueColorIMU.py
adjust_hue(b, use_group, g, l, change, fail) ==
    IF ~b THEN Result(FALSE, g, l, <<>>)
    ELSE IF use_group THEN adjust_hue_group(g, l, change, fail)
    ELSE adjust_hue_lights(g, l, change, fail)

\* hueBright lines 86-88
toggle_group_id(g) == g.present

toggle_group_on(g, l, fail) ==
    IF fail = 0 /\ g.present
    THEN Result(TRUE, [g EXCEPT !.any_on = TRUE], l,
                <<Op("get_group", TRUE), Op("set_group", TRUE)>>)
    ELSE Result(FALSE, g, l, <<Op("get_group", fail /= 1)>>)

\* lines 84-93 of hueBright.py
toggle_group(g, l, fail) ==
    IF fail = 1 THEN Result(FALSE, g, l, <<Op("get_group", FALSE)>>)
    ELSE IF ~toggle_group_id(g) THEN Result(FALSE, g, l, <<Op("get_group", TRUE)>>)
    ELSE IF fail = 2
         THEN Result(FALSE, g, l, <<Op("get_group", TRUE), Op("set_group", FALSE)>>)
         ELSE Result(TRUE, [g EXCEPT !.any_on = ~g.any_on], l,
                     <<Op("get_group", TRUE), Op("set_group", TRUE)>>)

\* lines 94-104 of hueBright.py
toggle_individual(g, l, fail) ==
    LET avail == available_lights(l)
        n == Len(avail)
    IN  IF fail = 1 THEN Result(FALSE, g, l, <<Op("get_light_objects", FALSE)>>)
        ELSE IF n = 0 THEN Result(FALSE, g, l, <<Op("get_light_objects", TRUE)>>)
        ELSE IF fail = 2
             THEN Result(FALSE, g, l,
                         <<Op("get_light_objects", TRUE), Op("get_light", FALSE)>>)
             ELSE LET current_state == l[avail[1]].on
                      raised == fail >= 3 /\ fail <= 2 + n
                      nset == IF raised THEN fail - 3 ELSE n
                      done == {avail[i] : i \in 1..nset}
                  IN  Result(~raised,
                             g,
                             [m \in DOMAIN l |->
                                 IF m \in done THEN [l[m] EXCEPT !.on = ~current_state]
                                 ELSE l[m]],
                             <<Op("get_light_objects", TRUE), Op("get_light", TRUE)>>
                                 \o SetCalls("set_light", nset, raised))

\* lines 78-107 of hueBright.py; ret is TRUE when the toggle went through
toggle_lights(b, use_group, g, l, fail) ==
    IF ~b THEN Result(FALSE, g, l, <<>>)
    ELSE IF use_group THEN toggle_group(g, l, fail)
    ELSE toggle_individual(g, l, fail)

Raised(calls) == \E i \in 1..Len(calls) : ~calls[i].ok

propagates_raised(calls) == Raised(calls)

\* except Exception: hueColorIMU lines 125-127, hueBright lines 106-107.  No
\* exception of a bridge call leaves adjust_hue or toggle_lights.
propagates(calls) == FALSE

\* where main() is after a handler: an exception that left the handler would
\* leave myo.run() and the loop
after_handler(calls) == IF propagates(calls) THEN "finally" ELSE "loop"

Mutating(calls) ==
    \E i \in 1..Len(calls) : calls[i].op \in {"set_group", "set_light"} /\ calls[i].ok

\* ------------------------------------------------------------ initial state
DefaultGroup == [present |-> TRUE, hue |-> 1000, any_on |-> FALSE]
DefaultLight == [present |-> TRUE, hue |-> 1000, on |-> FALSE]
LightSet == {LIGHT_NAMES[i] : i \in 1..Len(LIGHT_NAMES)}

\* the fields of the bridge state a script reads or writes
GroupStates(s) ==
    IF s = "hueColorIMU"
    THEN [present : BOOLEAN, hue : HueSamples \cup {NoHue}, any_on : {FALSE}]
    ELSE [present : BOOLEAN, hue : {1000}, any_on : BOOLEAN]
LightStates(s) ==
    IF s = "hueColorIMU"
    THEN [present : BOOLEAN, hue : HueSamples, on : {FALSE}]
    ELSE [present : BOOLEAN, hue : {1000}, on : BOOLEAN]

\* module level of both scripts: the configuration and lines 51-54
Init ==
    /\ script \in Scripts
    /\ TRAINING_MODE \in BOOLEAN
    /\ USE_GROUP \in BOOLEAN
    /\ pc = "setup"
    /\ bridge = FALSE
    /\ current_gesture = 0
    /\ imu_y_value = 0
    /\ last_hue_update = 0
    /\ gesture_start_y = 0
    /\ now = UPDATE_INTERVAL
    /\ groups \in (IF USE_GROUP THEN GroupStates(script) ELSE {DefaultGroup})
    /\ lights \in (IF USE_GROUP THEN [LightSet -> {DefaultLight}]
                   ELSE [LightSet -> LightStates(script)])
    /\ faults = 0
    /\ ev = NoEvent
    /\ call = NoCallRec
    /\ io = <<>>
    /\ lastOk = <<>>
    /\ activeRun = 0
    /\ fired = 0
    /\ lastSample = <<>>
    /\ disconnects = 0
    /\ pygame = "none"

\* ------------------------------------------------------------ main()
\* setup_hue_bridge: any exception gives None
setup_hue_bridge ==
    /\ pc = "setup"
    /\ \E connected \in BOOLEAN : bridge' = connected
    /\ pc' = "classifier"
    /\ UNCHANGED <<resources, cfgvars, globals, env, hub, obs>>

\* the training window, then the classifier: hueColorIMU lines 187-212 (an
\* exception of the classifier returns), hueBright lines 125-138 (an exception
\* ends the process)
init_classifier ==
    /\ pc = "classifier"
    /\ pygame' = IF TRAINING_MODE THEN "init" ELSE pygame
    /\ \E ok \in BOOLEAN : pc' = IF ok THEN "connect" ELSE "done"
    /\ UNCHANGED <<disconnects, cfgvars, bridge, globals, env, hub, obs>>

after_connect_unguarded(ok) == IF ok THEN "loop" ELSE "done"

\* myo.connect() is inside the try block: hueColorIMU lines 224-225, hueBright
\* lines 148-149
after_connect(ok) == IF ok THEN "loop" ELSE "finally"

\* myo.connect(): hueColorIMU line 225, hueBright line 149
myo_connect ==
    /\ pc = "connect"
    /\ \E ok \in BOOLEAN :
         /\ pc' = after_connect(ok)
         /\ ev' = IF ok THEN ev ELSE Event("Exception", 0, 0)
    /\ UNCHANGED <<resources, cfgvars, bridge, globals, env, hub, call, io, ghosts>>

\* KeyboardInterrupt, or an exception of myo.run() or myo.run_gui(), leaves the
\* loop; what was observed of the handlers is dropped with it
leave_loop ==
    /\ pc = "loop"
    /\ pc' = "finally"
    /\ \E cause \in {"KeyboardInterrupt", "Exception"} : ev' = Event(cause, 0, 0)
    /\ call' = NoCallRec
    /\ io' = <<>>
    /\ lastOk' = <<>>
    /\ activeRun' = 0
    /\ fired' = 0
    /\ lastSample' = <<>>
    /\ UNCHANGED <<resources, cfgvars, bridge, globals, env, hub>>

\* the finally block: hueColorIMU lines 238-242, hueBright lines 160-164
teardown ==
    /\ pc = "finally"
    /\ disconnects' = disconnects + 1
    /\ pygame' = IF TRAINING_MODE THEN "quit" ELSE pygame
    /\ pc' = "done"
    /\ UNCHANGED <<cfgvars, bridge, globals, env, hub, obs>>

\* ------------------------------------------------------------ environment
Tick ==
    /\ pc = "loop"
    /\ script = "hueColorIMU"
    /\ now < MaxTime
    /\ now' = now + 1
    /\ ev' = Event("Tick", 0, 0)
    /\ call' = NoCallRec
    /\ io' = <<>>
    /\ UNCHANGED <<resources, cfgvars, pc, bridge, globals, faults, hub, ghosts>>

\* another client of the bridge changes the target, or the target comes and goes
bridge_external ==
    /\ pc = "loop"
    /\ IF USE_GROUP
       THEN /\ groups' \in GroupStates(script) \ {groups}
            /\ UNCHANGED lights
       ELSE /\ \E n \in LightSet :
                   \E st \in LightStates(script) \ {lights[n]} :
                       lights' = [lights EXCEPT ![n] = st]
            /\ UNCHANGED groups
    /\ ev' = Event("bridge_external", 0, 0)
    /\ call' = NoCallRec
    /\ io' = <<>>
    /\ UNCHANGED <<resources, cfgvars, pc, bridge, globals, env, ghosts>>

\* ------------------------------------------------------------ handlers
gesture_changed_always(pose, cur) == TRUE

\* hueColorIMU line 133
gesture_changed(pose, cur) == pose /= cur

\* hueColorIMU lines 130-140
handle_gesture ==
    /\ pc = "loop"
    /\ script = "hueColorIMU"
    /\ \E pose \in Poses :
        LET changed == gesture_changed(pose, current_gesture)
            capture == changed /\ pose = 1
        IN  /\ current_gesture' = IF changed THEN pose ELSE current_gesture
            /\ gesture_start_y' = IF capture THEN imu_y_value ELSE gesture_start_y
            /\ ev' = Event("handle_gesture", pose, gesture_start_y)
            /\ activeRun' = IF pose = 1 THEN Inc(activeRun) ELSE 0
            /\ fired' = IF pose /= 1 THEN 0
                        ELSE IF capture THEN Inc(fired) ELSE fired
    /\ call' = NoCallRec
    /\ io' = <<>>
    /\ UNCHANGED <<resources, cfgvars, pc, bridge, imu_y_value, last_hue_update,
                   env, hub, lastOk, lastSample>>

record_sample_active(acc1, old, gesture) == IF gesture = 1 THEN acc1 ELSE old

\* hueColorIMU line 148
record_sample(acc1, old, gesture) == acc1

imu_gate_pose(gesture, training) == gesture /= 1

imu_gate_training(gesture, training) == training

\* hueColorIMU line 151
imu_gate(gesture, training) == gesture /= 1 \/ training

stamp_always(ret, current_time, last) == current_time

\* hueColorIMU lines 170-171: if adjust_hue(...): last_hue_update = current_time
stamp(ret, current_time, last) == IF ret THEN current_time ELSE last

\* hueColorIMU lines 143-172, for a reading acc[1] out of Acc
imu_event(Acc) ==
    /\ pc = "loop"
    /\ script = "hueColorIMU"
    /\ \E acc1 \in Acc, fail \in 0..MaxCalls :
        LET y == record_sample(acc1, imu_y_value, current_gesture)
            relative_y == y - gesture_start_y
            current_time == now
            calls == /\ ~imu_gate(current_gesture, TRAINING_MODE)
                     /\ ~rate_limited(current_time, last_hue_update)
                     /\ ~in_deadzone(relative_y)
                     /\ over_threshold(relative_y)
            change == hue_change(relative_y)
            r == IF calls
                 THEN adjust_hue(bridge, USE_GROUP, groups, lights, change, fail)
                 ELSE Result(FALSE, groups, lights, <<>>)
        IN  /\ Raised(r.io) => faults < MaxFaults
            /\ faults' = IF Raised(r.io) THEN faults + 1 ELSE faults
            /\ imu_y_value' = y
            /\ last_hue_update' = stamp(r.ret, current_time, last_hue_update)
            /\ pc' = after_handler(r.io)
            /\ groups' = r.groups
            /\ lights' = r.lights
            /\ ev' = Event("handle_imu", acc1, 0)
            /\ call' = IF calls
                       THEN [fn |-> "adjust_hue", hue_change |-> change, ret |-> r.ret]
                       ELSE NoCallRec
            /\ io' = r.io
            /\ lastOk' = IF r.ret THEN <<now>> ELSE lastOk
            /\ lastSample' = <<acc1>>
    /\ UNCHANGED <<resources, cfgvars, bridge, current_gesture, gesture_start_y,
                   now, activeRun, fired>>

handle_imu == imu_event(AccValues)

\* hueBright line 112
toggle_gate(pose, training) == pose = 1 /\ ~training

\* hueBright lines 110-113
hueBright_handle_gesture ==
    /\ pc = "loop"
    /\ script = "hueBright"
    /\ \E pose \in Poses, fail \in 0..MaxCalls :
        LET calls == toggle_gate(pose, TRAINING_MODE)
            r == IF calls
                 THEN toggle_lights(bridge, USE_GROUP, groups, lights, fail)
                 ELSE Result(FALSE, groups, lights, <<>>)
        IN  /\ Raised(r.io) => faults < MaxFaults
            /\ faults' = IF Raised(r.io) THEN faults + 1 ELSE faults
            /\ groups' = r.groups
            /\ lights' = r.lights
            /\ ev' = Event("handle_gesture", pose, 0)
            /\ call' = IF calls
                       THEN [fn |-> "toggle_lights", hue_change |-> 0, ret |-> r.ret]
                       ELSE NoCallRec
            /\ io' = r.io
            /\ pc' = after_handler(r.io)
            /\ activeRun' = IF pose = 1 THEN Inc(activeRun) ELSE 0
            /\ fired' = IF pose /= 1 THEN 0
                        ELSE IF calls THEN Inc(fired) ELSE fired
    /\ UNCHANGED <<resources, cfgvars, bridge, globals, now, lastOk, lastSample>>

Next ==
    \/ setup_hue_bridge
    \/ init_classifier
    \/ myo_connect
    \/ leave_loop
    \/ teardown
    \/ Tick
    \/ bridge_external
    \/ handle_gesture
    \/ handle_imu
    \/ hueBright_handle_gesture

Spec == Init /\ [][Next]_vars

\* ------------------------------------------------------------ single samples
(* hueColorIMU's loop is running: a pose was delivered, the anchor is one of   *)
(* WideAnchors, an update may just have been applied (last_hue_update = now)   *)
(* and another client has left the target at some hue.  One sample from the    *)
(* wide range then arrives.                                                    *)
InitSample ==
    /\ script = "hueColorIMU"
    /\ TRAINING_MODE = FALSE
    /\ USE_GROUP \in BOOLEAN
    /\ pc = "loop"
    /\ bridge = TRUE
    /\ current_gesture \in {0, 1}
    /\ gesture_start_y \in WideAnchors
    /\ imu_y_value = gesture_start_y
    /\ now = UPDATE_INTERVAL + 1
    /\ last_hue_update \in {0, now}
    /\ \E h \in WideHues :
         /\ groups = [DefaultGroup EXCEPT !.hue = IF USE_GROUP THEN h ELSE 1000]
         /\ lights = [n \in LightSet |->
                         [DefaultLight EXCEPT !.hue = IF USE_GROUP THEN 1000 ELSE h]]
    /\ faults = 0
    /\ ev = Event("bridge_external", 0, 0)
    /\ call = NoCallRec
    /\ io = <<>>
    /\ lastOk = IF last_hue_update = 0 THEN <<>> ELSE <<last_hue_update>>
    /\ activeRun = IF current_gesture = 1 THEN 1 ELSE 0
    /\ fired = activeRun
    /\ lastSample = <<gesture_start_y>>
    /\ disconnects = 0
    /\ pygame = "none"

sample == ev.h = "bridge_external" /\ imu_event(WideAcc)

SpecSample == InitSample /\ [][sample]_vars


\* ------------------------------------------------------------ properties
InLoop(s) == pc = "loop" /\ script = s
Relative == imu_y_value - gesture_start_y
Qualifying == current_gesture = 1 /\ ~TRAINING_MODE /\ Abs(Relative) > MOTION_THRESHOLD

(* C1, as claimed: of two qualifying samples less than UPDATE_INTERVAL apart    *)
(* (here: with no tick between them) only the first produces a lighting call,   *)
(* whatever the outcome of the first call.                                      *)
C1_OnlyFirstSampleCalls ==
    [][(/\ ev.h = "handle_imu" /\ call.fn = "adjust_hue"
        /\ ev'.h = "handle_imu" /\ now' = now /\ Qualifying')
       => call'.fn = "none"]_vars

(* C1, amended: a sample that arrives less than UPDATE_INTERVAL after an        *)
(* adjust_hue that returned True produces no lighting call: adjust_hue is not   *)
(* invoked and no bridge call is made.                                          *)
C1_NoCallWithinIntervalOfSuccess ==
    [][(/\ ev'.h = "handle_imu"
        /\ lastOk /= <<>>
        /\ now' - lastOk[1] < UPDATE_INTERVAL)
       => (call'.fn = "none" /\ io' = <<>>)]_vars

C1_Witness ==
    /\ InLoop("hueColorIMU")
    /\ ev.h = "handle_imu"
    /\ Qualifying
    /\ lastOk /= <<>>
    /\ now - lastOk[1] < UPDATE_INTERVAL
    /\ now > lastOk[1]
    /\ call.fn = "none"

(* C2: two hue mutations applied by adjust_hue are at least UPDATE_INTERVAL     *)
(* apart; in particular no two samples handled at the same instant both change  *)
(* a hue on the bridge.                                                         *)
C2_MutationsSpaced ==
    [][(/\ ev.h = "handle_imu" /\ Mutating(io)
        /\ ev'.h = "handle_imu" /\ now' = now)
       => ~Mutating(io')]_vars

(* C3: in hueBright's control mode toggle_lights is invoked once for a run of   *)
(* consecutive active poses delivered to handle_gesture, however long the run.  *)
C3_ToggleOncePerRun ==
    (InLoop("hueBright") /\ ~TRAINING_MODE /\ activeRun >= 1) => fired = 1

(* C4: in hueColorIMU the anchor is captured once in a run of consecutive       *)
(* active poses, by the first of them; a repeated active pose leaves            *)
(* current_gesture and gesture_start_y as they were.                            *)
C4_AnchorCapturedOnce ==
    (InLoop("hueColorIMU") /\ activeRun >= 1) =>
        /\ fired = 1
        /\ current_gesture = 1
        /\ (ev.h = "handle_gesture" /\ activeRun >= 2) => gesture_start_y = ev.prev

C4_Witness ==
    /\ InLoop("hueColorIMU")
    /\ ev.h = "handle_gesture"
    /\ activeRun = 3
    /\ fired = 1
    /\ imu_y_value /= gesture_start_y

(* C5: a sample whose relative = acc[1] - gesture_start_y has magnitude at most *)
(* MOTION_THRESHOLD issues no lighting call, and leaves last_hue_update and the *)
(* bridge as they were, whatever the pose and the time since the last update.   *)
C5_TwoTierGate ==
    [][(/\ ev'.h = "handle_imu"
        /\ Abs(imu_y_value' - gesture_start_y') <= MOTION_THRESHOLD)
       => (/\ call'.fn = "none"
           /\ io' = <<>>
           /\ last_hue_update' = last_hue_update
           /\ UNCHANGED hub)]_vars

C5_Witness ==
    /\ ev.h = "handle_imu"
    /\ current_gesture = 1
    /\ now - last_hue_update >= UPDATE_INTERVAL
    /\ Abs(Relative) = MOTION_THRESHOLD
    /\ call.fn = "none"

ExactFloor(relative_y) == (Abs(relative_y) * HUE_STEP) \div MOTION_THRESHOLD
SameSign(a, b) == (a > 0 /\ b > 0) \/ (a < 0 /\ b < 0)

(* C6, as claimed: the delta passed to adjust_hue is the integer nearest to     *)
(* relative * HUE_STEP / MOTION_THRESHOLD.                                      *)
C6_DeltaRounded ==
    (ev.h = "handle_imu" /\ call.fn = "adjust_hue") =>
        call.hue_change = hue_change_round(Relative)

(* C6, amended: the delta is the double-precision product truncated toward      *)
(* zero.  It has the sign of relative; its magnitude is                         *)
(* floor(|relative| * HUE_STEP / MOTION_THRESHOLD) for |relative| < 603, 2009   *)
(* for |relative| = 603, where the product falls just below 2010, and the floor *)
(* or one less beyond that.                                                     *)
C6_DeltaTruncated ==
    (ev.h = "handle_imu" /\ call.fn = "adjust_hue") =>
        LET d == call.hue_change
            f == ExactFloor(Relative)
        IN  /\ SameSign(d, Relative)
            /\ Abs(Relative) < 603 => Abs(d) = f
            /\ Abs(Relative) = 603 => Abs(d) = 2009
            /\ Abs(Relative) > 603 => Abs(d) \in {f - 1, f}

C6_Witness ==
    /\ ev.h = "handle_imu"
    /\ call.fn = "adjust_hue"
    /\ Relative = -152
    /\ call.hue_change = -506

\* the hue adjust_hue reads: the group's, or the first configured light found
FetchedHue ==
    IF USE_GROUP THEN groups.hue ELSE lights[available_lights(lights)[1]].hue
WrittenTo(h) ==
    IF USE_GROUP THEN groups.hue = h
    ELSE \A i \in 1..Len(available_lights(lights)) :
            lights[available_lights(lights)[i]].hue = h

(* C7: an adjust_hue that goes through writes a hue in 0..65535 that differs    *)
(* from the hue fetched in that call plus the delta by a multiple of 65536;     *)
(* 65300 + 500 gives 264.                                                       *)
C7_CyclicHue ==
    [][(ev'.h = "handle_imu" /\ call'.fn = "adjust_hue" /\ call'.ret)
       => (/\ new_hue(65300, 500) = 264
           /\ \E w \in 0..(HueSpace - 1) :
                /\ WrittenTo(w)'
                /\ \E k \in -1..1 :
                     w = FetchedHue + call'.hue_change - k * HueSpace)]_vars

C7_Witness ==
    /\ ev.h = "handle_imu"
    /\ call.fn = "adjust_hue"
    /\ call.ret
    /\ USE_GROUP
    /\ call.hue_change > 0
    /\ groups.hue < call.hue_change

Scenario300 ==
    /\ ev'.h = "handle_imu"
    /\ current_gesture = 1
    /\ now - last_hue_update >= UPDATE_INTERVAL
    /\ imu_y_value' - gesture_start_y = 300
    /\ USE_GROUP /\ groups.present /\ groups.hue = 1000

(* C8, as claimed: with the pose active, no rate limit in effect and the group  *)
(* at hue 1000, a sample with relative motion 300 gives delta 1000 and writes   *)
(* hue 1100.                                                                    *)
C8_Writes1100 ==
    [][Scenario300 =>
        (/\ call'.fn = "adjust_hue" /\ call'.hue_change = 1000
         /\ (Raised(io') \/ groups'.hue = 1100))]_vars

(* C8, amended: in that scenario the delta is 1000 and the hue written is       *)
(* (1000 + 1000) mod 65536 = 2000.                                              *)
C8_Writes2000 ==
    [][Scenario300 =>
        (/\ call'.fn = "adjust_hue" /\ call'.hue_change = 1000
         /\ (Raised(io') \/ groups'.hue = 2000))]_vars

C8_Witness ==
    /\ ev.h = "handle_imu"
    /\ USE_GROUP
    /\ Relative = 300
    /\ call = [fn |-> "adjust_hue", hue_change |-> 1000, ret |-> TRUE]
    /\ groups.hue = 2000

(* C9: when the pose turns active, the anchor is the latest sample delivered    *)
(* before that, also on a second activation and also when that sample came      *)
(* while the pose was inactive.                                                 *)
C9_AnchorIsLatestSample ==
    (/\ InLoop("hueColorIMU")
     /\ ev.h = "handle_gesture" /\ ev.arg = 1 /\ activeRun = 1
     /\ lastSample /= <<>>)
    => gesture_start_y = lastSample[1]

\* a second activation (an update was applied during an earlier one) that moves
\* the anchor
C9_Witness ==
    /\ InLoop("hueColorIMU")
    /\ ev.h = "handle_gesture" /\ ev.arg = 1 /\ activeRun = 1
    /\ lastOk /= <<>>
    /\ lastSample /= <<>>
    /\ gesture_start_y = lastSample[1]
    /\ ev.prev /= gesture_start_y

TargetAbsent ==
    IF USE_GROUP THEN ~groups.present ELSE \A n \in LightSet : ~lights[n].present

(* C10: when the configured group, or every configured light, is absent from    *)
(* what the bridge lists, adjust_hue and toggle_lights make the listing call    *)
(* only, change nothing on the bridge and return normally, adjust_hue with      *)
(* False, so that last_hue_update is not advanced.                              *)
C10_NotFound ==
    [][(/\ call'.fn \in {"adjust_hue", "toggle_lights"}
        /\ bridge
        /\ TargetAbsent
        /\ ~Raised(io'))
       => (/\ ~call'.ret
           /\ Len(io') = 1
           /\ io'[1].op \in {"get_group", "get_light_objects"}
           /\ UNCHANGED hub
           /\ last_hue_update' = last_hue_update)]_vars

C10_Witness ==
    /\ InLoop("hueColorIMU")
    /\ call = [fn |-> "adjust_hue", hue_change |-> 1000, ret |-> FALSE]
    /\ bridge
    /\ TargetAbsent
    /\ io = <<Op("get_group", TRUE)>>

(* C11: a cycle in which a bridge call of adjust_hue or toggle_lights raises is *)
(* a no-op: the handler returns to the loop and no group or light state has    *)
(* been changed by it, in individual-light mode as well.                       *)
C11_FailedCycleIsNoOp ==
    [][(call'.fn \in {"adjust_hue", "toggle_lights"} /\ Raised(io'))
       => (pc' = "loop" /\ UNCHANGED hub)]_vars

(* C12, as claimed: the polling loop is never given up because of a failure; a  *)
(* failing connect() of the armband does not end main, and only a user          *)
(* interrupt takes main to its teardown.                                        *)
C12_OnlyInterruptEndsLoop ==
    pc = "finally" => ev.h = "KeyboardInterrupt"

(* C12, amended: an unreachable bridge at startup, an absent target and a       *)
(* bridge call that raises never end main: after setup_hue_bridge main goes on  *)
(* to the classifier, and every handler returns to the polling loop.  The loop  *)
(* is left for the teardown by a user interrupt or by an exception of the       *)
(* armband driver, and a connect() that raises goes to the teardown without     *)
(* entering the loop.                                                           *)
C12_LightingFailuresNeverEndMain ==
    [][/\ pc = "setup" => pc' = "classifier"
       /\ ev'.h \in {"handle_gesture", "handle_imu"} => pc' = "loop"
       /\ (pc = "loop" /\ pc' /= "loop") =>
             (pc' = "finally" /\ ev'.h \in {"KeyboardInterrupt", "Exception"})
       /\ (pc = "connect" /\ pc' /= "loop") =>
             (pc' = "finally" /\ ev'.h = "Exception")]_vars

C12_Witness ==
    /\ pc = "loop"
    /\ bridge
    /\ call.fn \in {"adjust_hue", "toggle_lights"}
    /\ Raised(io)
    /\ faults = MaxFaults

\* the configured lights found on the bridge are all on, or all off
Uniform(l) ==
    \A i, j \in 1..Len(available_lights(l)) :
        l[available_lights(l)[i]].on = l[available_lights(l)[j]].on

(* C13, as claimed: a toggle_lights that goes through sets the group, or each   *)
(* configured light found, to the negation of that device's own state before    *)
(* the toggle.                                                                  *)
C13_EachDeviceNegated ==
    [][(call'.fn = "toggle_lights" /\ call'.ret)
       => IF USE_GROUP
          THEN groups'.any_on = ~groups.any_on
          ELSE \A i \in 1..Len(available_lights(lights)) :
                  LET n == available_lights(lights)[i]
                  IN  lights'[n].on = ~lights[n].on]_vars

(* C13, amended: a toggle_lights that goes through sets the group to the        *)
(* negation of its any_on, and every configured light found to the negation of  *)
(* the state of the first of them.  A second toggle with no change in between   *)
(* gives back the group's any_on, and gives back the lights' states when they   *)
(* were all equal before the first toggle.                                      *)
C13_TargetNegated ==
    [][(call'.fn = "toggle_lights" /\ call'.ret)
       => LET again == toggle_lights(bridge, USE_GROUP, groups', lights', 0)
          IN  IF USE_GROUP
              THEN /\ groups'.any_on = ~groups.any_on
                   /\ again.groups = groups
              ELSE /\ \A i \in 1..Len(available_lights(lights)) :
                         lights'[available_lights(lights)[i]].on
                            = ~lights[available_lights(lights)[1]].on
                   /\ Uniform(lights) => again.lights = lights]_vars

C13_Witness ==
    /\ InLoop("hueBright")
    /\ ~USE_GROUP
    /\ call.fn = "toggle_lights" /\ call.ret
    /\ fired >= 2
    /\ \A n \in LightSet : lights[n].present /\ lights[n].on

(* C14: when setup_hue_bridge returned None, no pose or motion event of either  *)
(* script makes a bridge call, reading or writing; the handler returns to the   *)
(* loop, last_hue_update is not advanced and the bridge is left alone, while    *)
(* the latest sample, the pose and the anchor are tracked as usual.             *)
C14_DegradedMode ==
    [][(pc = "loop" /\ ~bridge /\ ev'.h \in {"handle_gesture", "handle_imu"})
       => (/\ io' = <<>>
           /\ pc' = "loop"
           /\ last_hue_update' = last_hue_update
           /\ UNCHANGED hub
           /\ ev'.h = "handle_imu" => imu_y_value' = ev'.arg
           /\ (script = "hueColorIMU" /\ ev'.h = "handle_gesture") =>
                 /\ current_gesture' = ev'.arg
                 /\ gesture_start_y' =
                       IF ev'.arg = 1 /\ current_gesture /= 1
                       THEN imu_y_value ELSE gesture_start_y)]_vars

C14_Witness ==
    /\ InLoop("hueColorIMU")
    /\ ~bridge
    /\ ev.h = "handle_imu"
    /\ Qualifying
    /\ now > UPDATE_INTERVAL
    /\ call = [fn |-> "adjust_hue", hue_change |-> 1000, ret |-> FALSE]
    /\ io = <<>>
    /\ last_hue_update = 0

(* C15: with TRAINING_MODE true no pose or motion event of either script makes  *)
(* a lighting call: adjust_hue and toggle_lights are not invoked, no bridge     *)
(* call is made and the bridge and last_hue_update are left as they were.       *)
C15_TrainingModeNoLighting ==
    [][(TRAINING_MODE /\ ev'.h \in {"handle_gesture", "handle_imu"})
       => (/\ call'.fn = "none"
           /\ io' = <<>>
           /\ UNCHANGED hub
           /\ last_hue_update' = last_hue_update)]_vars

C15_Witness ==
    /\ InLoop("hueColorIMU")
    /\ TRAINING_MODE
    /\ bridge
    /\ pygame = "init"
    /\ ev.h = "handle_imu"
    /\ current_gesture = 1
    /\ Abs(Relative) > MOTION_THRESHOLD
    /\ now - last_hue_update >= UPDATE_INTERVAL
    /\ ~TargetAbsent

(* C16: an adjust_hue that returns True sets last_hue_update to the time of     *)
(* that sample, one that returns False (bridge None, target absent, a bridge    *)
(* call raised) leaves it as it was.  So last_hue_update is always the time of  *)
(* the last success, and a qualifying sample that follows a failed attempt, at  *)
(* once or later, makes a new attempt however little time has passed.           *)
C16_RetryOnFailure ==
    [][(pc' = "loop" /\ ev'.h = "handle_imu")
       => (/\ (call'.fn = "adjust_hue" /\ call'.ret) => last_hue_update' = now'
           /\ ~call'.ret => last_hue_update' = last_hue_update
           /\ last_hue_update' = IF lastOk' = <<>> THEN 0 ELSE lastOk'[1]
           /\ (/\ ev.h = "handle_imu" /\ call.fn = "adjust_hue" /\ ~call.ret
               /\ Qualifying') => call'.fn = "adjust_hue"
           /\ (/\ Qualifying'
               /\ lastOk /= <<>> => now' - lastOk[1] >= UPDATE_INTERVAL)
              => call'.fn = "adjust_hue")]_vars

\* a failed attempt and a successful one at the same instant
C16_Witness ==
    /\ InLoop("hueColorIMU")
    /\ ev.h = "handle_imu"
    /\ call.fn = "adjust_hue" /\ call.ret
    /\ faults = 1
    /\ now = UPDATE_INTERVAL
    /\ last_hue_update = now

(* C17: while current_gesture is not the active label 1, a pose change to       *)
(* another non-active label and every motion sample make no bridge call and     *)
(* leave the anchor, last_hue_update and the bridge as they were; a motion      *)
(* sample changes imu_y_value only.                                             *)
C17_GestureGating ==
    [][(/\ InLoop("hueColorIMU")
        /\ current_gesture /= 1
        /\ \/ ev'.h = "handle_imu"
           \/ ev'.h = "handle_gesture" /\ ev'.arg /= 1)
       => (/\ call'.fn = "none"
           /\ io' = <<>>
           /\ UNCHANGED hub
           /\ gesture_start_y' = gesture_start_y
           /\ last_hue_update' = last_hue_update
           /\ ev'.h = "handle_imu" =>
                 (imu_y_value' = ev'.arg /\ current_gesture' = current_gesture))]_vars

\* after an update applied during an active pose, a sample far from the anchor
\* arrives under another label
C17_Witness ==
    /\ InLoop("hueColorIMU")
    /\ ~TRAINING_MODE
    /\ bridge
    /\ ~TargetAbsent
    /\ ev.h = "handle_imu"
    /\ current_gesture = 2
    /\ lastOk /= <<>>
    /\ now - last_hue_update >= UPDATE_INTERVAL
    /\ Abs(Relative) > MOTION_THRESHOLD
    /\ call.fn = "none"

\* main() has ended after its try block was entered
MainEndedAfterTry == pc = "done" /\ ev.h \in {"KeyboardInterrupt", "Exception"}

(* C18: however the try block of main is left (a user interrupt, an exception   *)
(* of connect() or of run(), in control or in training mode), when main has     *)
(* ended myo.disconnect() has been called exactly once, not before the loop was *)
(* left, and in training mode pygame has been shut down as well.                *)
C18_GuaranteedTeardown ==
    /\ MainEndedAfterTry =>
          (disconnects = 1 /\ (TRAINING_MODE => pygame = "quit"))
    /\ pc \in {"connect", "loop", "finally"} => disconnects = 0
    /\ disconnects <= 1

C18_Witness ==
    /\ MainEndedAfterTry
    /\ script = "hueBright"
    /\ ev.h = "Exception"
    /\ TRAINING_MODE
    /\ pygame = "quit"
    /\ disconnects = 1

(* C19: a motion sample, and the adjust_hue it may invoke, never changes        *)
(* gesture_start_y.  So when the pose is active and the axis value stays where  *)
(* it was, beyond MOTION_THRESHOLD from the anchor, a sample arriving at least  *)
(* UPDATE_INTERVAL after the last successful update invokes adjust_hue with the *)
(* delta of that same displacement again, and the hue is stepped once more.     *)
C19_HueKeepsStepping ==
    [][(InLoop("hueColorIMU") /\ ev'.h = "handle_imu")
       => (/\ gesture_start_y' = gesture_start_y
           /\ (/\ current_gesture = 1 /\ ~TRAINING_MODE
               /\ lastOk /= <<>>
               /\ now' - lastOk[1] >= UPDATE_INTERVAL
               /\ imu_y_value' = imu_y_value
               /\ Abs(Relative) > MOTION_THRESHOLD)
              => (/\ call'.fn = "adjust_hue"
                  /\ call'.hue_change = hue_change(Relative)
                  /\ (call'.ret /\ USE_GROUP) =>
                        groups'.hue = new_hue(group_hue(groups), hue_change(Relative))))]_vars

\* two steps of 1000 from the hue 1000 another client had set, anchor unmoved
C19_Witness ==
    /\ InLoop("hueColorIMU")
    /\ USE_GROUP
    /\ ev.h = "handle_imu"
    /\ call = [fn |-> "adjust_hue", hue_change |-> 1000, ret |-> TRUE]
    /\ gesture_start_y = 0 /\ imu_y_value = 300
    /\ groups.hue = 3000

(* C20: every delta handle_imu passes to adjust_hue is nonzero, has the sign of *)
(* relative and a magnitude of at least HUE_STEP that grows with |relative|     *)
(* (more than three times |relative|, with no cap); no bridge call is made for  *)
(* a delta of magnitude below HUE_STEP.                                         *)
C20_DeltaAtLeastHueStep ==
    /\ (ev.h = "handle_imu" /\ call.fn = "adjust_hue") =>
          LET d == call.hue_change
          IN  /\ d /= 0
              /\ SameSign(d, Relative)
              /\ Abs(d) >= HUE_STEP
              /\ Abs(d) > 3 * Abs(Relative)
    /\ (script = "hueColorIMU" /\ io /= <<>>) =>
          (call.fn = "adjust_hue" /\ Abs(call.hue_change) >= HUE_STEP)

C20_Witness ==
    /\ ev.h = "handle_imu"
    /\ Relative = -(MOTION_THRESHOLD + 1)
    /\ call = [fn |-> "adjust_hue", hue_change |-> -503, ret |-> TRUE]
    /\ io /= <<>>

====
